---- MODULE Spec2Model ----
(***************************************************************************)
(* State-machine model of android/hal-ipc.c: the HAL side of the BlueZ     *)
(* Android IPC transport.  One command socket (hal_ipc_cmd, serialized by  *)
(* cmd_sk_mutex), one notification socket read by notification_handler,    *)
(* set up by hal_ipc_init and torn down by hal_ipc_cleanup.                *)
(***************************************************************************)
EXTENDS Integers, Sequences, FiniteSets, TLC

(***************************************************************************)
(* Bounds of the model.                                                    *)
(***************************************************************************)
NCallers == 2        \* caller threads
MaxCalls == 1        \* hal_ipc_cmd calls per caller thread (Spec)
MaxNotif == 1        \* notifications the peer sends per connection
MaxInit  == 1        \* hal_ipc_init calls of the main thread
MaxCap   == 2        \* largest response buffer a caller passes (SpecCmd)
MaxBody  == 3        \* longest response body the peer sends (SpecCmd)
CmdCalls == 2        \* hal_ipc_cmd calls of the single caller (SpecCmd)
NotifBurst == 2      \* notifications the peer sends (SpecNotif)
MaxReinit == 2       \* hal_ipc_init calls of the main thread (SpecReinit)

(***************************************************************************)
(* Program constants (android/hal-msg.h, hal.h).                           *)
(***************************************************************************)
HdrSize   == 4       \* sizeof(struct hal_msg_hdr): u8 service, u8 opcode, u16 len
ErrSize   == 1       \* sizeof(struct hal_msg_rsp_error): u8 status
OpError   == 0       \* HAL_MSG_OP_ERROR
MinEvent  == 129     \* HAL_MSG_MINIMUM_EVENT (0x81)
Mtu       == 1024    \* BLUEZ_HAL_MTU
SvcBluetooth == 1    \* HAL_SERVICE_ID_BLUETOOTH
StatusSuccess == 0   \* BT_STATUS_SUCCESS

NoFd    == -1        \* "no descriptor" / invalid socket
FdUnset == -2        \* content of the caller's *fd before the call writes it
FdListen == 3        \* descriptor socket() returns (lowest free)
FdCmd    == 4        \* descriptor of the first accept()
FdNotif  == 5        \* descriptor of the second accept()
FdPassed == 7        \* a descriptor the peer attaches as SCM_RIGHTS

Min(a, b) == IF a < b THEN a ELSE b

Callers == 1 .. NCallers

Byte == {0, 1, 2, 170}

\* Bytes the peer puts into a body, and bytes a caller's buffer holds before
\* the call.
BodyBytes == {1, 2}
StaleBytes == {0, 170}

RECURSIVE SeqsUpTo(_, _)
SeqsUpTo(S, n) ==
    IF n = 0 THEN {<<>>}
    ELSE LET prev == SeqsUpTo(S, n - 1)
         IN  prev \cup {Append(s, x) : s \in {t \in prev : Len(t) = n - 1}, x \in S}

(***************************************************************************)
(* Messages on the wire.  hb is the number of header bytes the record      *)
(* holds (a well-formed record has hb = HdrSize), len the declared length, *)
(* body the bytes that follow the header and fd an attached descriptor.    *)
(***************************************************************************)
Req(sid, op, payload) ==
    [sid |-> sid, op |-> op, len |-> Len(payload), body |-> payload]

Rsp(hb, sid, op, len, body, fd) ==
    [hb |-> hb, sid |-> sid, op |-> op, len |-> len, body |-> body, fd |-> fd]

\* A notification's payload is opaque to the transport: body is its size.
Ntf(hb, sid, op, len, body, fd) ==
    [hb |-> hb, sid |-> sid, op |-> op, len |-> len, body |-> body, fd |-> fd]

\* Arguments of one hal_ipc_cmd call.  hasRsp: rsp and rsp_len both non-NULL;
\* cap: *rsp_len on entry; buf: the content of rsp[0..cap-1] on entry;
\* wantFd: fd non-NULL.
Args(sid, op, payload, hasRsp, buf, wantFd) ==
    [sid |-> sid, op |-> op, payload |-> payload, hasRsp |-> hasRsp,
     cap |-> Len(buf), buf |-> buf, wantFd |-> wantFd]

NoArgs == Args(0, 0, <<>>, FALSE, <<>>, FALSE)
NoRsp  == Rsp(0, 0, 0, 0, <<>>, NoFd)
NoNtf  == Ntf(0, 0, 0, 0, 0, NoFd)

(***************************************************************************)
(* Pure parts of hal_ipc_cmd.                                              *)
(***************************************************************************)
\* Lines 269-273 and 306-307: the receive buffer and its size.  Without a
\* caller buffer the body goes to the zeroed local err of sizeof(err) bytes.
CmdBufCap(a) == IF a.hasRsp THEN a.cap ELSE ErrSize

CmdBuf0(a) == IF a.hasRsp THEN a.buf ELSE [i \in 1 .. ErrSize |-> 0]

\* Bytes of one SOCK_SEQPACKET record.
RecordSize(r) == r.hb + (IF r.hb = HdrSize THEN Len(r.body) ELSE 0)

\* A recvmsg that reports the size of the record, not of what it stored.
RecvRetWhole(r, cap) == RecordSize(r)

\* Return value of recvmsg for record r read into iov[0] (the header) and
\* iov[1] (cap bytes): a longer record is cut to the iovec's size.
RecvRet(r, cap) == Min(RecordSize(r), HdrSize + cap)

\* hal_msg after recvmsg: it was zeroed (line 301), then the record's first
\* bytes were stored over it.
RecvHdr(r) ==
    [sid |-> IF r.hb >= 1 THEN r.sid ELSE 0,
     op  |-> IF r.hb >= 2 THEN r.op ELSE 0,
     len |-> IF r.hb = HdrSize THEN r.len
             ELSE IF r.hb = 3 THEN r.len % 256 ELSE 0]

\* A receive that leaves iov[1] alone.
RecvBodyNothing(buf, r) == buf

\* iov[1] after recvmsg: the record's body bytes overwrite the start of the
\* buffer, the rest of the buffer keeps its content.
RecvBody(buf, r) ==
    [i \in 1 .. Len(buf) |->
        IF r.hb = HdrSize /\ i <= Len(r.body) THEN r.body[i] ELSE buf[i]]

\* Line 328.
CmdTooSmall(ret) == ret < HdrSize

\* Length checks that reject only a response that is too short, or only one
\* that is too long.
CmdMalformedShortOnly(ret, hdr) == ret < HdrSize + hdr.len

CmdMalformedLongOnly(ret, hdr) == ret > HdrSize + hdr.len

\* Line 333.
CmdMalformed(ret, hdr) == ret # HdrSize + hdr.len

\* The opcode check with its second comparison inverted.
CmdBadOpcodeInverted(hdr, opcode) == hdr.op # opcode /\ hdr.op = OpError

\* An opcode check that accepts the request's opcode only.
CmdBadOpcodeStrict(hdr, opcode) == hdr.op # opcode

\* Line 338.
CmdBadOpcode(hdr, opcode) == hdr.op # opcode /\ hdr.op # OpError

\* A validation that takes no response for an error response.
CmdIsErrorNever(hdr) == FALSE

\* Line 344.
CmdIsError(hdr) == hdr.op = OpError

\* Lines 345-346: err->status is the first byte of rsp.  With a caller buffer
\* of capacity 0 that byte lies outside what the call received into: any value.
CmdErrStatus(buf) == IF Len(buf) >= 1 THEN {buf[1]} ELSE Byte

(***************************************************************************)
(* Pure parts of notification_handler.                                     *)
(***************************************************************************)
\* Line 83: buf holds BLUEZ_HAL_MTU bytes.
NotifRet(n) == Min(n.hb + (IF n.hb = HdrSize THEN n.body ELSE 0), Mtu)

\* The loop ending on any zero-length read.
NotifBenignAnyZero(ret, cmdsk) == ret = 0

\* Lines 91-93: the benign end of the loop.
NotifBenign(ret, cmdsk) == ret = 0 /\ cmdsk = -1

\* Line 99.
NotifTooSmall(ret) == ret < HdrSize

\* The opcode check with its limit off by one.
NotifBadOpcodeOffByOne(hdr) == hdr.op < MinEvent - 1

\* Line 105.
NotifBadOpcode(hdr) == hdr.op < MinEvent

\* Line 111.
NotifMalformed(ret, hdr) == ret # HdrSize + hdr.len

(***************************************************************************)
(* State.                                                                  *)
(***************************************************************************)
VARIABLES
    exitAt,      \* "none", or the path on which the process was terminated
    cmd_sk,      \* static int cmd_sk
    notif_sk,    \* static int notif_sk
    notif_th,    \* static pthread_t notif_th (0, or 1 for a thread handle)
    mutex,       \* cmd_sk_mutex: 0 when free, else the caller holding it
    open,        \* descriptors open in this process
    mpc,         \* position of the thread running hal_ipc_init/hal_ipc_cleanup
    inits,       \* hal_ipc_init calls made so far
    initRet,     \* result of the last hal_ipc_init: "none", TRUE or FALSE
    \* the two connections, as the kernel and the peer hold them
    reqQ,        \* requests sent on the command socket, not yet answered
    rspQ,        \* responses in flight to this process
    peerCmd,     \* "none", "open" or "closed": the peer's command end
    notifQ,      \* notifications in flight
    peerNotif,   \* "none", "open" or "closed": the peer's notification end
    shutRd,      \* shutdown(notif_sk, SHUT_RD) was issued
    nsent,       \* notifications the peer sent on this connection
    \* hal_ipc_cmd callers
    pc,          \* position of each caller
    calls,       \* calls each caller made
    args,        \* arguments of the caller's current call
    rbuf,        \* the receive buffer (caller's rsp, or the local err)
    rlen,        \* the caller's *rsp_len
    fdOut,       \* the caller's *fd
    retv,        \* value returned by the last call (-1: none yet)
    got,         \* what recvmsg returned: ret, hal_msg and the record read
    \* notification thread
    npc,         \* "none", "recv", "check", "dispatch", "close", "stopped"
    nret,        \* ret of the last recvmsg
    nmsg,        \* the record the last recvmsg read
    nfd,         \* fd handed to notification_dispatch
    dispatched,  \* notifications handed to notification_dispatch, in order
    delivered,   \* those passed on to bt_notify_adapter
    \* history
    cleanQuiet,  \* teardown began while the thread was blocked in its read,
                 \* and nothing but the teardown has acted on the channel since
    prevErr,     \* per caller: its previous call returned an error status
    accLog,      \* system calls accept_connection made in this hal_ipc_init
    arrived,     \* notifications the peer sent that the process can still
                 \* read or has read, in the order they were sent
    conns        \* times both sockets of the connection were established

procVars == <<exitAt, cmd_sk, notif_sk, notif_th, mutex, open>>
mainVars == <<mpc, inits, initRet>>
cmdConn  == <<reqQ, rspQ, peerCmd>>
notifConn == <<notifQ, peerNotif, shutRd, nsent>>
callVars == <<pc, calls, args, rbuf, rlen, fdOut, retv, got>>
notifVars == <<npc, nret, nmsg, nfd, dispatched, delivered>>
histVars == <<cleanQuiet, prevErr, accLog, arrived, conns>>

vars == <<procVars, mainVars, cmdConn, notifConn, callVars, notifVars, histVars>>

NoGot == [ret |-> 0, hdr |-> RecvHdr(NoRsp), rec |-> NoRsp]

Init ==
    /\ exitAt = "none"
    /\ cmd_sk = -1
    /\ notif_sk = -1
    /\ notif_th = 0
    /\ mutex = 0
    /\ open = {}
    /\ mpc = "down"
    /\ inits = 0
    /\ initRet = "none"
    /\ reqQ = <<>>
    /\ rspQ = <<>>
    /\ peerCmd = "none"
    /\ notifQ = <<>>
    /\ peerNotif = "none"
    /\ shutRd = FALSE
    /\ nsent = 0
    /\ pc = [c \in Callers |-> "idle"]
    /\ calls = [c \in Callers |-> 0]
    /\ args = [c \in Callers |-> NoArgs]
    /\ rbuf = [c \in Callers |-> <<>>]
    /\ rlen = [c \in Callers |-> 0]
    /\ fdOut = [c \in Callers |-> FdUnset]
    /\ retv = [c \in Callers |-> -1]
    /\ got = [c \in Callers |-> NoGot]
    /\ npc = "none"
    /\ nret = 0
    /\ nmsg = NoNtf
    /\ nfd = NoFd
    /\ dispatched = <<>>
    /\ delivered = <<>>
    /\ cleanQuiet = FALSE
    /\ prevErr = [c \in Callers |-> FALSE]
    /\ accLog = <<>>
    /\ arrived = <<>>
    /\ conns = 0

Running == exitAt = "none"

Exit(path) == exitAt' = path

(***************************************************************************)
(* hal_ipc_init (lines 172-240) and accept_connection (lines 140-170), run *)
(* by the main thread.                                                     *)
(***************************************************************************)
\* Return from hal_ipc_init.
InitReturn(result) ==
    /\ initRet' = result
    /\ mpc' = IF result THEN "up" ELSE "down"

\* Lines 178-184: sk = socket(...).
InitSocket(ok) ==
    /\ Running
    /\ mpc = "down"
    /\ inits' = inits + 1
    /\ IF ok
       THEN /\ open' = open \cup {FdListen}
            /\ mpc' = "i_bind"
            /\ initRet' = "none"
       ELSE /\ InitReturn(FALSE)
            /\ open' = open
    /\ accLog' = <<>>
    /\ UNCHANGED <<exitAt, cmd_sk, notif_sk, notif_th, mutex>>
    /\ UNCHANGED <<cmdConn, notifConn, callVars, notifVars, cleanQuiet, prevErr>>
    /\ UNCHANGED <<arrived, conns>>

\* Lines 191-196: bind.
InitBind(ok) ==
    /\ Running
    /\ mpc = "i_bind"
    /\ IF ok
       THEN /\ mpc' = "i_listen"
            /\ UNCHANGED <<open, initRet>>
       ELSE /\ open' = open \ {FdListen}
            /\ InitReturn(FALSE)
    /\ UNCHANGED <<exitAt, cmd_sk, notif_sk, notif_th, mutex, inits>>
    /\ UNCHANGED <<cmdConn, notifConn, callVars, notifVars, histVars>>

\* A hal_ipc_init that returns after a failed listen without close(sk).
InitListenLeaks(ok) ==
    /\ Running
    /\ mpc = "i_listen"
    /\ IF ok
       THEN /\ mpc' = "i_accept1"
            /\ UNCHANGED <<open, initRet>>
       ELSE /\ open' = open
            /\ InitReturn(FALSE)
    /\ UNCHANGED <<exitAt, cmd_sk, notif_sk, notif_th, mutex, inits>>
    /\ UNCHANGED <<cmdConn, notifConn, callVars, notifVars, histVars>>

\* Lines 198-207: listen, then property_set starts the daemon.
InitListen(ok) ==
    /\ Running
    /\ mpc = "i_listen"
    /\ IF ok
       THEN /\ mpc' = "i_accept1"
            /\ UNCHANGED <<open, initRet>>
       ELSE /\ open' = open \ {FdListen}
            /\ InitReturn(FALSE)
    /\ UNCHANGED <<exitAt, cmd_sk, notif_sk, notif_th, mutex, inits>>
    /\ UNCHANGED <<cmdConn, notifConn, callVars, notifVars, histVars>>

\* accept_connection: what poll and accept report, and the value returned.
AcceptOutcomes == {"ok", "poll_error", "timeout", "accept_error"}

accept_connection(outcome, newfd) == IF outcome = "ok" THEN newfd ELSE -1

\* An accept_connection that polls again after a timeout.
AcceptCallsRetry(outcome) ==
    CASE outcome = "poll_error"   -> <<"poll_err">>
      [] outcome = "timeout"      -> <<"poll_0", "poll_0">>
      [] outcome = "accept_error" -> <<"poll_1", "accept_err">>
      [] outcome = "ok"           -> <<"poll_1", "accept_ok">>

\* Lines 150-167: the system calls of one accept_connection.  poll is called
\* once; accept is called only after poll reported a ready descriptor.
AcceptCalls(outcome) ==
    CASE outcome = "poll_error"   -> <<"poll_err">>
      [] outcome = "timeout"      -> <<"poll_0">>
      [] outcome = "accept_error" -> <<"poll_1", "accept_err">>
      [] outcome = "ok"           -> <<"poll_1", "accept_ok">>

\* Lines 209-213: cmd_sk = accept_connection(sk).
InitAcceptCmd(outcome) ==
    /\ Running
    /\ mpc = "i_accept1"
    /\ cmd_sk' = accept_connection(outcome, FdCmd)
    /\ IF cmd_sk' < 0
       THEN /\ open' = open \ {FdListen}
            /\ InitReturn(FALSE)
            /\ UNCHANGED cmdConn
       ELSE /\ open' = open \cup {FdCmd}
            /\ reqQ' = <<>>
            /\ rspQ' = <<>>
            /\ peerCmd' = "open"
            /\ mpc' = "i_accept2"
            /\ UNCHANGED initRet
    /\ accLog' = accLog \o AcceptCalls(outcome)
    /\ UNCHANGED <<exitAt, notif_sk, notif_th, mutex, inits>>
    /\ UNCHANGED <<notifConn, callVars, notifVars, cleanQuiet, prevErr>>
    /\ UNCHANGED <<arrived, conns>>

\* Lines 215-225: notif_sk = accept_connection(sk), then close(sk).
InitAcceptNotif(outcome) ==
    /\ Running
    /\ mpc = "i_accept2"
    /\ notif_sk' = accept_connection(outcome, FdNotif)
    /\ IF notif_sk' < 0
       THEN /\ open' = (open \ {FdListen}) \ {cmd_sk}
            /\ cmd_sk' = -1
            /\ InitReturn(FALSE)
            /\ UNCHANGED <<notifConn, arrived, conns>>
       ELSE /\ open' = (open \cup {FdNotif}) \ {FdListen}
            /\ notifQ' = <<>>
            /\ arrived' = SubSeq(arrived, 1, Len(arrived) - Len(notifQ))
            /\ conns' = conns + 1
            /\ peerNotif' = "open"
            /\ shutRd' = FALSE
            /\ nsent' = 0
            /\ mpc' = "i_spawn"
            /\ UNCHANGED <<cmd_sk, initRet>>
    /\ accLog' = accLog \o AcceptCalls(outcome)
    /\ UNCHANGED <<exitAt, notif_th, mutex, inits>>
    /\ UNCHANGED <<cmdConn, callVars, notifVars, cleanQuiet, prevErr>>

\* Lines 227-239: err = pthread_create(...).  pthread_create returns 0 or a
\* positive error number; on an error no thread runs and notif_th keeps its
\* content.
InitSpawn(err) ==
    /\ Running
    /\ mpc = "i_spawn"
    /\ IF err < 0
       THEN /\ notif_th' = 0
            /\ open' = (open \ {cmd_sk}) \ {notif_sk}
            /\ cmd_sk' = -1
            /\ notif_sk' = -1
            /\ InitReturn(FALSE)
            /\ UNCHANGED npc
       ELSE /\ notif_th' = IF err = 0 THEN 1 ELSE notif_th
            /\ npc' = IF err = 0 THEN "recv" ELSE npc
            /\ InitReturn(TRUE)
            /\ UNCHANGED <<open, cmd_sk, notif_sk>>
    /\ UNCHANGED <<exitAt, mutex, inits>>
    /\ UNCHANGED <<nret, nmsg, nfd, dispatched, delivered>>
    /\ UNCHANGED <<cmdConn, notifConn, callVars, histVars>>

(***************************************************************************)
(* hal_ipc_cleanup (lines 242-251), run by the main thread on an           *)
(* initialized transport.                                                  *)
(***************************************************************************)
\* Line 244: close(cmd_sk).
CleanupClose ==
    /\ Running
    /\ mpc = "up"
    /\ open' = open \ {cmd_sk}
    /\ mpc' = "c_mark"
    /\ cleanQuiet' = (npc = "recv" /\ notifQ = <<>> /\ peerNotif = "open")
    /\ UNCHANGED <<prevErr, accLog, arrived, conns>>
    /\ UNCHANGED <<exitAt, cmd_sk, notif_sk, notif_th, mutex, inits, initRet>>
    /\ UNCHANGED <<cmdConn, notifConn, callVars, notifVars>>

\* A teardown that goes on to the shutdown without marking cmd_sk.
CleanupMarkNothing ==
    /\ Running
    /\ mpc = "c_mark"
    /\ mpc' = "c_shutdown"
    /\ UNCHANGED <<exitAt, cmd_sk, notif_sk, notif_th, mutex, open, inits, initRet>>
    /\ UNCHANGED <<cmdConn, notifConn, callVars, notifVars, histVars>>

\* Line 245: cmd_sk = -1.
CleanupMark ==
    /\ Running
    /\ mpc = "c_mark"
    /\ cmd_sk' = -1
    /\ mpc' = "c_shutdown"
    /\ UNCHANGED <<exitAt, notif_sk, notif_th, mutex, open, inits, initRet>>
    /\ UNCHANGED <<cmdConn, notifConn, callVars, notifVars, histVars>>

\* A teardown that closes the notification socket instead of shutting it down.
CleanupShutdownCloses ==
    /\ Running
    /\ mpc = "c_shutdown"
    /\ open' = open \ {notif_sk}
    /\ shutRd' = (shutRd \/ notif_sk \in open)
    /\ mpc' = "c_join"
    /\ UNCHANGED <<exitAt, cmd_sk, notif_sk, notif_th, mutex>>
    /\ UNCHANGED <<inits, initRet, notifQ, peerNotif, nsent>>
    /\ UNCHANGED <<cmdConn, callVars, notifVars, histVars>>

\* Line 247: shutdown(notif_sk, SHUT_RD); it fails without effect when the
\* thread has already closed the socket.
CleanupShutdown ==
    /\ Running
    /\ mpc = "c_shutdown"
    /\ shutRd' = (shutRd \/ notif_sk \in open)
    /\ mpc' = "c_join"
    /\ UNCHANGED <<procVars, inits, initRet, notifQ, peerNotif, nsent>>
    /\ UNCHANGED <<cmdConn, callVars, notifVars, histVars>>

\* A teardown that resets the handle without waiting for the thread.
CleanupJoinNoWait(crash) ==
    /\ Running
    /\ mpc = "c_join"
    /\ ~crash
    /\ notif_th' = 0
    /\ mpc' = "down"
    /\ UNCHANGED <<exitAt, cmd_sk, notif_sk, mutex, open, inits, initRet>>
    /\ UNCHANGED <<cmdConn, notifConn, callVars, notifVars, histVars>>

\* Lines 249-250: pthread_join(notif_th, NULL); notif_th = 0.  Joining a
\* handle that names no thread is undefined: the call fails at once or the
\* process crashes.
CleanupJoin(crash) ==
    /\ Running
    /\ mpc = "c_join"
    /\ IF notif_th # 0
       THEN /\ npc = "stopped"
            /\ ~crash
       ELSE TRUE
    /\ IF crash
       THEN /\ Exit("join_crash")
            /\ UNCHANGED <<notif_th, mpc>>
       ELSE /\ notif_th' = 0
            /\ mpc' = "down"
            /\ UNCHANGED exitAt
    /\ UNCHANGED <<cmd_sk, notif_sk, mutex, open, inits, initRet>>
    /\ UNCHANGED <<cmdConn, notifConn, callVars, notifVars, histVars>>

(***************************************************************************)
(* The loop that looks for a passed descriptor (lines 120-127, 355-362):   *)
(*   for (cmsg = CMSG_FIRSTHDR(&msg); !cmsg; cmsg = CMSG_NXTHDR(...))      *)
(* The body runs only while cmsg is NULL.  With ancillary data cmsg is not *)
(* NULL, the body never runs and fd stays -1.  Without ancillary data cmsg *)
(* is NULL and the body reads cmsg->cmsg_level through it: undefined, the  *)
(* process crashes or the build drops the access and fd stays -1.          *)
(***************************************************************************)
CmsgScan(cmsgFd) ==
    IF cmsgFd = NoFd
    THEN {[crash |-> TRUE, fd |-> NoFd], [crash |-> FALSE, fd |-> NoFd]}
    ELSE {[crash |-> FALSE, fd |-> NoFd]}

(***************************************************************************)
(* hal_ipc_cmd (lines 253-369), run by caller thread c.                    *)
(***************************************************************************)
\* A hal_ipc_cmd that goes on to the lock whatever cmd_sk holds.
CmdEnterNoGate(c, a) ==
    /\ Running
    /\ pc[c] \in {"idle", "done"}
    /\ calls' = [calls EXCEPT ![c] = @ + 1]
    /\ pc' = [pc EXCEPT ![c] = "lock"]
    /\ args' = [args EXCEPT ![c] = a]
    /\ rbuf' = [rbuf EXCEPT ![c] = CmdBuf0(a)]
    /\ rlen' = [rlen EXCEPT ![c] = CmdBufCap(a)]
    /\ fdOut' = [fdOut EXCEPT ![c] = FdUnset]
    /\ retv' = [retv EXCEPT ![c] = -1]
    /\ got' = [got EXCEPT ![c] = NoGot]
    /\ prevErr' = [prevErr EXCEPT ![c] =
                      pc[c] = "done" /\ CmdIsError(got[c].hdr)]
    /\ UNCHANGED <<exitAt, cmd_sk, notif_sk, notif_th, mutex, open>>
    /\ UNCHANGED <<mainVars, cmdConn, notifConn, notifVars, cleanQuiet, accLog>>
    /\ UNCHANGED <<arrived, conns>>

\* Lines 264-289: the cmd_sk check and the set-up of the request.
CmdEnter(c, a) ==
    /\ Running
    /\ pc[c] \in {"idle", "done"}
    /\ calls' = [calls EXCEPT ![c] = @ + 1]
    /\ IF cmd_sk < 0
       THEN /\ Exit("cmd_invalid_sk")
            /\ UNCHANGED <<pc, args, rbuf, rlen, fdOut, retv, got, prevErr>>
       ELSE /\ pc' = [pc EXCEPT ![c] = "lock"]
            /\ args' = [args EXCEPT ![c] = a]
            /\ rbuf' = [rbuf EXCEPT ![c] = CmdBuf0(a)]
            /\ rlen' = [rlen EXCEPT ![c] = CmdBufCap(a)]
            /\ fdOut' = [fdOut EXCEPT ![c] = FdUnset]
            /\ retv' = [retv EXCEPT ![c] = -1]
            /\ got' = [got EXCEPT ![c] = NoGot]
            /\ prevErr' = [prevErr EXCEPT ![c] =
                              pc[c] = "done" /\ CmdIsError(got[c].hdr)]
            /\ UNCHANGED exitAt
    /\ UNCHANGED <<cmd_sk, notif_sk, notif_th, mutex, open>>
    /\ UNCHANGED <<mainVars, cmdConn, notifConn, notifVars, cleanQuiet, accLog>>
    /\ UNCHANGED <<arrived, conns>>

\* hal_ipc_cmd without the wait on cmd_sk_mutex.
CmdLockNoWait(c) ==
    /\ Running
    /\ pc[c] = "lock"
    /\ mutex' = c
    /\ pc' = [pc EXCEPT ![c] = "send"]
    /\ UNCHANGED <<exitAt, cmd_sk, notif_sk, notif_th, open>>
    /\ UNCHANGED <<calls, args, rbuf, rlen, fdOut, retv, got>>
    /\ UNCHANGED <<mainVars, cmdConn, notifConn, notifVars, histVars>>

\* Line 291: pthread_mutex_lock(&cmd_sk_mutex).
CmdLock(c) ==
    /\ Running
    /\ pc[c] = "lock"
    /\ mutex = 0
    /\ mutex' = c
    /\ pc' = [pc EXCEPT ![c] = "send"]
    /\ UNCHANGED <<exitAt, cmd_sk, notif_sk, notif_th, open>>
    /\ UNCHANGED <<calls, args, rbuf, rlen, fdOut, retv, got>>
    /\ UNCHANGED <<mainVars, cmdConn, notifConn, notifVars, histVars>>

\* Lines 282-289: the bytes offered to sendmsg.
SendSize(a) == HdrSize + Len(a.payload)

\* Values sendmsg returns: -1 on a failure (bad descriptor, peer gone,
\* interrupted, no memory), else the number of bytes it sent.  A count one
\* payload byte short stands for every count below SendSize.
SendRets(a) ==
    {-1, SendSize(a)} \cup (IF a.payload # <<>> THEN {SendSize(a) - 1} ELSE {})

\* The record the peer gets when sendmsg returned ret >= HdrSize.
SentRecord(a, ret) ==
    [sid |-> a.sid, op |-> a.op, len |-> Len(a.payload),
     body |-> SubSeq(a.payload, 1, ret - HdrSize)]

\* Line 294.
SendFailed(ret) == ret < 0

\* A send that releases the mutex as soon as the request is out.
CmdSendUnlocks(c, ret) ==
    /\ Running
    /\ pc[c] = "send"
    /\ mutex' = 0
    /\ IF SendFailed(ret)
       THEN /\ pc' = [pc EXCEPT ![c] = "exit_send"]
            /\ UNCHANGED reqQ
       ELSE /\ cmd_sk \in open
            /\ peerCmd = "open"
            /\ reqQ' = Append(reqQ, SentRecord(args[c], ret))
            /\ pc' = [pc EXCEPT ![c] = "recv"]
    /\ UNCHANGED <<exitAt, cmd_sk, notif_sk, notif_th, open, rspQ, peerCmd>>
    /\ UNCHANGED <<calls, args, rbuf, rlen, fdOut, retv, got, histVars>>
    /\ UNCHANGED <<mainVars, notifConn, notifVars>>

\* Lines 293-298: ret = sendmsg(cmd_sk, &msg, 0).  On a failure the mutex is
\* released before exit() is called; any other ret goes on to the receive.
CmdSend(c, ret) ==
    /\ Running
    /\ pc[c] = "send"
    /\ IF SendFailed(ret)
       THEN /\ mutex' = 0
            /\ pc' = [pc EXCEPT ![c] = "exit_send"]
            /\ UNCHANGED reqQ
       ELSE /\ cmd_sk \in open
            /\ peerCmd = "open"
            /\ reqQ' = Append(reqQ, SentRecord(args[c], ret))
            /\ pc' = [pc EXCEPT ![c] = "recv"]
            /\ UNCHANGED mutex
    /\ UNCHANGED <<exitAt, cmd_sk, notif_sk, notif_th, open, rspQ, peerCmd>>
    /\ UNCHANGED <<calls, args, rbuf, rlen, fdOut, retv, got, histVars>>
    /\ UNCHANGED <<mainVars, notifConn, notifVars>>

\* A receive with a timeout: when it expires the call returns a failure
\* status to its caller.
CmdRecvTimesOut(c, how) ==
    /\ Running
    /\ pc[c] = "recv"
    /\ mutex' = 0
    /\ CASE how = "record" ->
              /\ rspQ # <<>>
              /\ got' = [got EXCEPT ![c] =
                            [ret |-> RecvRet(Head(rspQ), Len(rbuf[c])),
                             hdr |-> RecvHdr(Head(rspQ)),
                             rec |-> Head(rspQ)]]
              /\ rbuf' = [rbuf EXCEPT ![c] = RecvBody(@, Head(rspQ))]
              /\ rspQ' = Tail(rspQ)
              /\ pc' = [pc EXCEPT ![c] = "validate"]
              /\ UNCHANGED retv
         [] how = "eof" ->
              /\ rspQ = <<>>
              /\ peerCmd = "closed"
              /\ got' = [got EXCEPT ![c] = NoGot]
              /\ pc' = [pc EXCEPT ![c] = "validate"]
              /\ UNCHANGED <<rbuf, rspQ, retv>>
         [] how = "error" ->
              /\ pc' = [pc EXCEPT ![c] = "done"]
              /\ retv' = [retv EXCEPT ![c] = 1]
              /\ UNCHANGED <<rbuf, rspQ, got>>
    /\ UNCHANGED <<exitAt, cmd_sk, notif_sk, notif_th, open, reqQ, peerCmd>>
    /\ UNCHANGED <<calls, args, rlen, fdOut>>
    /\ UNCHANGED <<mainVars, notifConn, notifVars, histVars>>

\* Lines 318-326: ret = recvmsg(cmd_sk, &msg, 0), then the mutex is released.
\* "record": the next response is read; "eof": the peer closed, ret = 0;
\* "error": ret < 0, the mutex is released before exit() is called.
CmdRecv(c, how) ==
    /\ Running
    /\ pc[c] = "recv"
    /\ mutex' = 0
    /\ CASE how = "record" ->
              /\ rspQ # <<>>
              /\ got' = [got EXCEPT ![c] =
                            [ret |-> RecvRet(Head(rspQ), Len(rbuf[c])),
                             hdr |-> RecvHdr(Head(rspQ)),
                             rec |-> Head(rspQ)]]
              /\ rbuf' = [rbuf EXCEPT ![c] = RecvBody(@, Head(rspQ))]
              /\ rspQ' = Tail(rspQ)
              /\ pc' = [pc EXCEPT ![c] = "validate"]
         [] how = "eof" ->
              /\ rspQ = <<>>
              /\ peerCmd = "closed"
              /\ got' = [got EXCEPT ![c] = NoGot]
              /\ pc' = [pc EXCEPT ![c] = "validate"]
              /\ UNCHANGED <<rbuf, rspQ>>
         [] how = "error" ->
              /\ pc' = [pc EXCEPT ![c] = "exit_recv"]
              /\ UNCHANGED <<rbuf, rspQ, got>>
    /\ UNCHANGED <<exitAt, cmd_sk, notif_sk, notif_th, open, reqQ, peerCmd>>
    /\ UNCHANGED <<calls, args, rlen, fdOut, retv>>
    /\ UNCHANGED <<mainVars, notifConn, notifVars, histVars>>

\* Lines 297 and 323: exit(EXIT_FAILURE) after the mutex was released.
CmdExit(c) ==
    /\ Running
    /\ pc[c] \in {"exit_send", "exit_recv"}
    /\ Exit(IF pc[c] = "exit_send" THEN "cmd_send" ELSE "cmd_recv")
    /\ UNCHANGED <<cmd_sk, notif_sk, notif_th, mutex, open>>
    /\ UNCHANGED <<mainVars, cmdConn, notifConn, callVars, notifVars, histVars>>

\* Lines 365-368: the successful return.
CmdSuccess(c, fd) ==
    /\ fdOut' = [fdOut EXCEPT ![c] = fd]
    /\ rlen' = [rlen EXCEPT ![c] = got[c].hdr.len]
    /\ retv' = [retv EXCEPT ![c] = StatusSuccess]
    /\ pc' = [pc EXCEPT ![c] = "done"]
    /\ UNCHANGED exitAt

\* Lines 328-368: validation of the response and the return to the caller.
CmdValidate(c) ==
    /\ Running
    /\ pc[c] = "validate"
    /\ IF CmdTooSmall(got[c].ret)
       THEN /\ Exit("cmd_small")
            /\ UNCHANGED <<pc, rlen, fdOut, retv>>
       ELSE IF CmdMalformed(got[c].ret, got[c].hdr)
       THEN /\ Exit("cmd_malformed")
            /\ UNCHANGED <<pc, rlen, fdOut, retv>>
       ELSE IF CmdBadOpcode(got[c].hdr, args[c].op)
       THEN /\ Exit("cmd_opcode")
            /\ UNCHANGED <<pc, rlen, fdOut, retv>>
       ELSE IF CmdIsError(got[c].hdr)
       THEN /\ \E s \in CmdErrStatus(rbuf[c]) : retv' = [retv EXCEPT ![c] = s]
            /\ pc' = [pc EXCEPT ![c] = "done"]
            /\ UNCHANGED <<exitAt, rlen, fdOut>>
       ELSE IF args[c].wantFd
       THEN \E f \in CmsgScan(got[c].rec.fd) :
                IF f.crash
                THEN /\ Exit("cmd_crash")
                     /\ fdOut' = [fdOut EXCEPT ![c] = NoFd]
                     /\ UNCHANGED <<pc, rlen, retv>>
                ELSE CmdSuccess(c, f.fd)
       ELSE CmdSuccess(c, fdOut[c])
    /\ UNCHANGED <<cmd_sk, notif_sk, notif_th, mutex, open>>
    /\ UNCHANGED <<calls, args, rbuf, got>>
    /\ UNCHANGED <<mainVars, cmdConn, notifConn, notifVars, histVars>>

(***************************************************************************)
(* notification_handler (lines 58-138) and notification_dispatch (45-56).  *)
(***************************************************************************)
\* A receive that takes the newest queued notification instead of the oldest.
NotifRecvNewest(how) ==
    /\ Running
    /\ npc = "recv"
    /\ npc' = "check"
    /\ CASE how = "record" ->
              /\ notifQ # <<>>
              /\ nret' = NotifRet(notifQ[Len(notifQ)])
              /\ nmsg' = notifQ[Len(notifQ)]
              /\ notifQ' = SubSeq(notifQ, 1, Len(notifQ) - 1)
              /\ UNCHANGED cleanQuiet
         [] how = "eof" ->
              /\ notifQ = <<>>
              /\ shutRd \/ peerNotif = "closed"
              /\ nret' = 0
              /\ nmsg' = NoNtf
              /\ UNCHANGED <<notifQ, cleanQuiet>>
         [] how = "error" ->
              /\ nret' = -1
              /\ nmsg' = NoNtf
              /\ cleanQuiet' = FALSE
              /\ UNCHANGED notifQ
    /\ UNCHANGED <<procVars, mainVars, cmdConn, peerNotif, shutRd, nsent>>
    /\ UNCHANGED <<callVars, nfd, dispatched, delivered, prevErr, accLog>>
    /\ UNCHANGED <<arrived, conns>>

\* Line 83: ret = recvmsg(notif_sk, &msg, 0).  "record": the next
\* notification is read; "eof": nothing is queued and the socket was shut
\* down for reading or the peer closed; "error": ret < 0.
NotifRecv(how) ==
    /\ Running
    /\ npc = "recv"
    /\ npc' = "check"
    /\ CASE how = "record" ->
              /\ notifQ # <<>>
              /\ nret' = NotifRet(Head(notifQ))
              /\ nmsg' = Head(notifQ)
              /\ notifQ' = Tail(notifQ)
              /\ UNCHANGED cleanQuiet
         [] how = "eof" ->
              /\ notifQ = <<>>
              /\ shutRd \/ peerNotif = "closed"
              /\ nret' = 0
              /\ nmsg' = NoNtf
              /\ UNCHANGED <<notifQ, cleanQuiet>>
         [] how = "error" ->
              /\ nret' = -1
              /\ nmsg' = NoNtf
              /\ cleanQuiet' = FALSE
              /\ UNCHANGED notifQ
    /\ UNCHANGED <<procVars, mainVars, cmdConn, peerNotif, shutRd, nsent>>
    /\ UNCHANGED <<callVars, nfd, dispatched, delivered, prevErr, accLog>>
    /\ UNCHANGED <<arrived, conns>>

\* Lines 84-129: the checks on what was read, up to the call of
\* notification_dispatch.
NotifCheck ==
    /\ Running
    /\ npc = "check"
    /\ IF nret < 0
       THEN /\ Exit("notif_recv")
            /\ UNCHANGED <<npc, nfd, dispatched>>
       ELSE IF nret = 0
       THEN IF NotifBenign(nret, cmd_sk)
            THEN /\ npc' = "close"
                 /\ UNCHANGED <<exitAt, nfd, dispatched>>
            ELSE /\ Exit("notif_closed")
                 /\ UNCHANGED <<npc, nfd, dispatched>>
       ELSE IF NotifTooSmall(nret)
       THEN /\ Exit("notif_small")
            /\ UNCHANGED <<npc, nfd, dispatched>>
       ELSE IF NotifBadOpcode(RecvHdr(nmsg))
       THEN /\ Exit("notif_opcode")
            /\ UNCHANGED <<npc, nfd, dispatched>>
       ELSE IF NotifMalformed(nret, RecvHdr(nmsg))
       THEN /\ Exit("notif_malformed")
            /\ UNCHANGED <<npc, nfd, dispatched>>
       ELSE \E f \in CmsgScan(nmsg.fd) :
                IF f.crash
                THEN /\ Exit("notif_crash")
                     /\ nfd' = NoFd
                     /\ UNCHANGED <<npc, dispatched>>
                ELSE /\ nfd' = f.fd
                     /\ npc' = "dispatch"
                     /\ dispatched' = Append(dispatched,
                                         [ret |-> nret, msg |-> nmsg, fd |-> f.fd])
                     /\ UNCHANGED exitAt
    /\ UNCHANGED <<cmd_sk, notif_sk, notif_th, mutex, open>>
    /\ UNCHANGED <<nret, nmsg, delivered>>
    /\ UNCHANGED <<mainVars, cmdConn, notifConn, callVars, histVars>>

\* Lines 45-56 and 129-130: notification_dispatch runs and returns.
NotifDispatch ==
    /\ Running
    /\ npc = "dispatch"
    /\ delivered' = IF nmsg.sid = SvcBluetooth
                    THEN Append(delivered, nmsg) ELSE delivered
    /\ npc' = "recv"
    /\ UNCHANGED <<nret, nmsg, nfd, dispatched>>
    /\ UNCHANGED <<procVars, mainVars, cmdConn, notifConn, callVars, histVars>>

\* A thread that returns without closing its socket.
NotifCloseNothing ==
    /\ Running
    /\ npc = "close"
    /\ npc' = "stopped"
    /\ UNCHANGED <<exitAt, cmd_sk, notif_sk, notif_th, mutex, open>>
    /\ UNCHANGED <<nret, nmsg, nfd, dispatched, delivered>>
    /\ UNCHANGED <<mainVars, cmdConn, notifConn, callVars, histVars>>

\* Lines 132-137: close(notif_sk); notif_sk = -1; the thread returns.
NotifClose ==
    /\ Running
    /\ npc = "close"
    /\ open' = open \ {notif_sk}
    /\ notif_sk' = -1
    /\ npc' = "stopped"
    /\ UNCHANGED <<exitAt, cmd_sk, notif_th, mutex>>
    /\ UNCHANGED <<nret, nmsg, nfd, dispatched, delivered>>
    /\ UNCHANGED <<mainVars, cmdConn, notifConn, callVars, histVars>>

(***************************************************************************)
(* The peer daemon: it answers requests in order, pushes notifications and *)
(* may close either of its ends at any time.                               *)
(***************************************************************************)
PeerRespond(r) ==
    /\ Running
    /\ peerCmd = "open"
    /\ FdCmd \in open
    /\ reqQ # <<>>
    /\ reqQ' = Tail(reqQ)
    /\ rspQ' = Append(rspQ, r)
    /\ UNCHANGED <<procVars, mainVars, peerCmd, notifConn, callVars, notifVars, histVars>>

PeerCloseCmd ==
    /\ Running
    /\ peerCmd = "open"
    /\ peerCmd' = "closed"
    /\ UNCHANGED <<procVars, mainVars, reqQ, rspQ, notifConn, callVars, notifVars, histVars>>

PeerNotify(n) ==
    /\ Running
    /\ peerNotif = "open"
    /\ FdNotif \in open
    /\ ~shutRd
    /\ nsent' = nsent + 1
    /\ notifQ' = Append(notifQ, n)
    /\ cleanQuiet' = FALSE
    /\ arrived' = Append(arrived, n)
    /\ UNCHANGED <<procVars, mainVars, cmdConn, peerNotif, shutRd, callVars, notifVars, prevErr, accLog>>
    /\ UNCHANGED conns

PeerCloseNotif ==
    /\ Running
    /\ peerNotif = "open"
    /\ peerNotif' = "closed"
    /\ UNCHANGED <<procVars, mainVars, cmdConn, notifQ, shutRd, nsent, callVars, notifVars, histVars>>

(***************************************************************************)
(* Inputs of the system specification: two callers, the kinds of response  *)
(* and of notification that matter to the threads' interplay.              *)
(***************************************************************************)
OtherOp(o) == o + 1

Responses(o) ==
    { Rsp(HdrSize, 1, o, 0, <<>>, NoFd),
      Rsp(HdrSize, 1, OpError, 1, <<1>>, NoFd),
      Rsp(HdrSize, 1, OtherOp(o), 0, <<>>, NoFd) }

CallArgs == { Args(1, 5, <<170, 1>>, FALSE, <<>>, FALSE) }

Notifs ==
    { Ntf(HdrSize, SvcBluetooth, MinEvent, 0, 0, NoFd),
      Ntf(HdrSize, 2, MinEvent + 1, 2, 2, FdPassed),
      Ntf(HdrSize, 2, MinEvent, 0, 0, NoFd),
      Ntf(2, SvcBluetooth, MinEvent, 0, 0, NoFd),
      Ntf(HdrSize, SvcBluetooth, MinEvent - 1, 0, 0, NoFd),
      Ntf(HdrSize, SvcBluetooth, MinEvent, 10, 4, NoFd),
      Ntf(HdrSize, SvcBluetooth, MinEvent, Mtu - HdrSize, Mtu, NoFd) }

Answers(set) == IF reqQ = <<>> THEN {} ELSE set

Next ==
    \/ \E ok \in BOOLEAN : inits < MaxInit /\ InitSocket(ok)
    \/ \E ok \in BOOLEAN : InitBind(ok)
    \/ \E ok \in BOOLEAN : InitListen(ok)
    \/ \E o \in AcceptOutcomes : InitAcceptCmd(o)
    \/ \E o \in AcceptOutcomes : InitAcceptNotif(o)
    \/ \E err \in {0, 11} : InitSpawn(err)
    \/ CleanupClose
    \/ CleanupMark
    \/ CleanupShutdown
    \/ \E crash \in BOOLEAN : CleanupJoin(crash)
    \/ \E c \in Callers, a \in CallArgs : calls[c] < MaxCalls /\ CmdEnter(c, a)
    \/ \E c \in Callers : CmdLock(c)
    \/ \E c \in Callers : \E ret \in SendRets(args[c]) : CmdSend(c, ret)
    \/ \E c \in Callers, how \in {"record", "eof", "error"} : CmdRecv(c, how)
    \/ \E c \in Callers : CmdExit(c)
    \/ \E c \in Callers : CmdValidate(c)
    \/ \E how \in {"record", "eof", "error"} : NotifRecv(how)
    \/ NotifCheck
    \/ NotifDispatch
    \/ NotifClose
    \/ \E r \in Answers(Responses(Head(reqQ).op)) : PeerRespond(r)
    \/ PeerCloseCmd
    \/ \E n \in Notifs : nsent < MaxNotif /\ PeerNotify(n)
    \/ PeerCloseNotif

Spec == Init /\ [][Next]_vars

(***************************************************************************)
(* The command channel alone: one caller on an established connection,     *)
(* every buffer the caller may pass and every record the peer may answer.  *)
(***************************************************************************)
\* The state hal_ipc_init leaves when it returns true with the thread running.
InitUp ==
    /\ exitAt = "none"
    /\ cmd_sk = FdCmd
    /\ notif_sk = FdNotif
    /\ notif_th = 1
    /\ mutex = 0
    /\ open = {FdCmd, FdNotif}
    /\ mpc = "up"
    /\ inits = 1
    /\ initRet = TRUE
    /\ reqQ = <<>>
    /\ rspQ = <<>>
    /\ peerCmd = "open"
    /\ notifQ = <<>>
    /\ peerNotif = "open"
    /\ shutRd = FALSE
    /\ nsent = 0
    /\ pc = [c \in Callers |-> "idle"]
    /\ calls = [c \in Callers |-> 0]
    /\ args = [c \in Callers |-> NoArgs]
    /\ rbuf = [c \in Callers |-> <<>>]
    /\ rlen = [c \in Callers |-> 0]
    /\ fdOut = [c \in Callers |-> FdUnset]
    /\ retv = [c \in Callers |-> -1]
    /\ got = [c \in Callers |-> NoGot]
    /\ npc = "recv"
    /\ nret = 0
    /\ nmsg = NoNtf
    /\ nfd = NoFd
    /\ dispatched = <<>>
    /\ delivered = <<>>
    /\ cleanQuiet = FALSE
    /\ prevErr = [c \in Callers |-> FALSE]
    /\ accLog = AcceptCalls("ok") \o AcceptCalls("ok")
    /\ arrived = <<>>
    /\ conns = 1

CmdArgs ==
    { Args(1, 5, p, h, b, f) :
        p \in {<<>>, <<170, 187>>},
        h \in BOOLEAN,
        b \in SeqsUpTo(StaleBytes, MaxCap),
        f \in BOOLEAN } \ { Args(1, 5, p, FALSE, b, f) :
                              p \in {<<>>, <<170, 187>>},
                              b \in SeqsUpTo(StaleBytes, MaxCap) \ {<<>>},
                              f \in BOOLEAN }

CmdResponses(o) ==
    { Rsp(HdrSize, 1, op, len, body, fd) :
        op \in {o, OpError, OtherOp(o)},
        len \in 0 .. MaxBody,
        body \in SeqsUpTo(BodyBytes, MaxBody),
        fd \in {NoFd, FdPassed} }
    \cup { Rsp(hb, 1, o, 0, <<>>, NoFd) : hb \in {0, 2, 3} }

NextCmd ==
    \/ \E a \in CmdArgs : calls[1] < CmdCalls /\ CmdEnter(1, a)
    \/ CmdLock(1)
    \/ \E ret \in SendRets(args[1]) : CmdSend(1, ret)
    \/ \E how \in {"record", "eof", "error"} : CmdRecv(1, how)
    \/ CmdExit(1)
    \/ CmdValidate(1)
    \/ \E r \in Answers(CmdResponses(Head(reqQ).op)) : PeerRespond(r)
    \/ PeerCloseCmd

SpecCmd == InitUp /\ [][NextCmd]_vars

(***************************************************************************)
(* The command path alone: hal_ipc_init, the callers of hal_ipc_cmd, the   *)
(* peer's end of the command socket and the two statements of              *)
(* hal_ipc_cleanup that touch cmd_sk.  The notification thread is started  *)
(* but never scheduled.                                                    *)
(***************************************************************************)
NextCalls ==
    \/ \E ok \in BOOLEAN : inits < MaxInit /\ InitSocket(ok)
    \/ \E ok \in BOOLEAN : InitBind(ok)
    \/ \E ok \in BOOLEAN : InitListen(ok)
    \/ \E o \in AcceptOutcomes : InitAcceptCmd(o)
    \/ \E o \in AcceptOutcomes : InitAcceptNotif(o)
    \/ \E err \in {0, 11} : InitSpawn(err)
    \/ CleanupClose
    \/ CleanupMark
    \/ \E c \in Callers, a \in CallArgs : calls[c] < MaxCalls /\ CmdEnter(c, a)
    \/ \E c \in Callers : CmdLock(c)
    \/ \E c \in Callers : \E ret \in SendRets(args[c]) : CmdSend(c, ret)
    \/ \E c \in Callers, how \in {"record", "eof", "error"} : CmdRecv(c, how)
    \/ \E c \in Callers : CmdExit(c)
    \/ \E c \in Callers : CmdValidate(c)
    \/ \E r \in Answers(Responses(Head(reqQ).op)) : PeerRespond(r)
    \/ PeerCloseCmd

SpecCalls == Init /\ [][NextCalls]_vars

(***************************************************************************)
(* The callers alone on an established transport: every thread calls       *)
(* hal_ipc_cmd, the peer answers or closes its end.                        *)
(***************************************************************************)
NextLock ==
    \/ \E c \in Callers, a \in CallArgs : calls[c] < MaxCalls /\ CmdEnter(c, a)
    \/ \E c \in Callers : CmdLock(c)
    \/ \E c \in Callers : \E ret \in SendRets(args[c]) : CmdSend(c, ret)
    \/ \E c \in Callers, how \in {"record", "eof", "error"} : CmdRecv(c, how)
    \/ \E c \in Callers : CmdExit(c)
    \/ \E c \in Callers : CmdValidate(c)
    \/ \E r \in Answers(Responses(Head(reqQ).op)) : PeerRespond(r)
    \/ PeerCloseCmd

SpecLock == InitUp /\ [][NextLock]_vars

(***************************************************************************)
(* Teardown of an established transport while calls are under way:         *)
(* hal_ipc_cleanup, the callers of hal_ipc_cmd, the notification thread    *)
(* (to which the peer sends nothing) and the peer's end of the command     *)
(* socket.                                                                 *)
(***************************************************************************)
NextDown ==
    \/ CleanupClose
    \/ CleanupMark
    \/ CleanupShutdown
    \/ \E crash \in BOOLEAN : CleanupJoin(crash)
    \/ \E c \in Callers, a \in CallArgs : calls[c] < MaxCalls /\ CmdEnter(c, a)
    \/ \E c \in Callers : CmdLock(c)
    \/ \E c \in Callers : \E ret \in SendRets(args[c]) : CmdSend(c, ret)
    \/ \E c \in Callers, how \in {"record", "eof", "error"} : CmdRecv(c, how)
    \/ \E c \in Callers : CmdExit(c)
    \/ \E c \in Callers : CmdValidate(c)
    \/ \E how \in {"eof", "error"} : NotifRecv(how)
    \/ NotifCheck
    \/ NotifClose
    \/ \E r \in Answers(Responses(Head(reqQ).op)) : PeerRespond(r)
    \/ PeerCloseCmd

SpecDown == InitUp /\ [][NextDown]_vars

\* The same with the progress the threads are sure of: a thread that can run
\* its next statement runs it, a system call that can return returns, and a
\* receive returns what the socket holds (a record, or the end of the stream
\* once the peer closed or the socket was shut down).  Nothing obliges the
\* application to start a call or the teardown, or the peer to act; and a
\* descriptor closed by another thread does not end a receive that is
\* already in progress on it, so the "error" return of a receive is not among
\* the sure steps.
SpecDownLive ==
    /\ SpecDown
    /\ WF_vars(CleanupMark)
    /\ WF_vars(CleanupShutdown)
    /\ WF_vars(CleanupJoin(FALSE))
    /\ WF_vars(NotifRecv("eof"))
    /\ WF_vars(NotifCheck)
    /\ WF_vars(NotifClose)
    /\ \A c \in Callers :
          /\ WF_vars(CmdLock(c))
          /\ WF_vars(\E ret \in SendRets(args[c]) : CmdSend(c, ret))
          /\ WF_vars(CmdRecv(c, "record"))
          /\ WF_vars(CmdRecv(c, "eof"))
          /\ WF_vars(CmdExit(c))
          /\ WF_vars(CmdValidate(c))

(***************************************************************************)
(* The notification path alone: hal_ipc_init, hal_ipc_cleanup, the         *)
(* notification thread and the peer's end of the notification socket.  No  *)
(* thread calls hal_ipc_cmd.                                               *)
(***************************************************************************)
NextLife ==
    \/ \E ok \in BOOLEAN : inits < MaxInit /\ InitSocket(ok)
    \/ \E ok \in BOOLEAN : InitBind(ok)
    \/ \E ok \in BOOLEAN : InitListen(ok)
    \/ \E o \in AcceptOutcomes : InitAcceptCmd(o)
    \/ \E o \in AcceptOutcomes : InitAcceptNotif(o)
    \/ \E err \in {0, 11} : InitSpawn(err)
    \/ CleanupClose
    \/ CleanupMark
    \/ CleanupShutdown
    \/ \E crash \in BOOLEAN : CleanupJoin(crash)
    \/ \E how \in {"record", "eof", "error"} : NotifRecv(how)
    \/ NotifCheck
    \/ NotifDispatch
    \/ NotifClose
    \/ \E n \in Notifs : nsent < MaxNotif /\ PeerNotify(n)
    \/ PeerCloseNotif

SpecLife == Init /\ [][NextLife]_vars

(***************************************************************************)
(* The notification thread on an established transport: the peer sends a   *)
(* burst of notifications or closes its end, and hal_ipc_cleanup may run.  *)
(***************************************************************************)
NextNotif ==
    \/ CleanupClose
    \/ CleanupMark
    \/ CleanupShutdown
    \/ \E crash \in BOOLEAN : CleanupJoin(crash)
    \/ \E how \in {"record", "eof", "error"} : NotifRecv(how)
    \/ NotifCheck
    \/ NotifDispatch
    \/ NotifClose
    \/ \E n \in Notifs : nsent < NotifBurst /\ PeerNotify(n)
    \/ PeerCloseNotif

SpecNotif == InitUp /\ [][NextNotif]_vars

(***************************************************************************)
(* hal_ipc_init and hal_ipc_cleanup called again and again by the main     *)
(* thread, with the notification thread each successful setup starts.  The *)
(* peer sends no notification.                                             *)
(***************************************************************************)
NextReinit ==
    \/ \E ok \in BOOLEAN : inits < MaxReinit /\ InitSocket(ok)
    \/ \E ok \in BOOLEAN : InitBind(ok)
    \/ \E ok \in BOOLEAN : InitListen(ok)
    \/ \E o \in AcceptOutcomes : InitAcceptCmd(o)
    \/ \E o \in AcceptOutcomes : InitAcceptNotif(o)
    \/ \E err \in {0, 11} : InitSpawn(err)
    \/ CleanupClose
    \/ CleanupMark
    \/ CleanupShutdown
    \/ \E crash \in BOOLEAN : CleanupJoin(crash)
    \/ \E how \in {"eof", "error"} : NotifRecv(how)
    \/ NotifCheck
    \/ NotifClose
    \/ PeerCloseNotif

SpecReinit == Init /\ [][NextReinit]_vars

(***************************************************************************)
(* Both sockets in use at once on an established transport: one thread     *)
(* calls hal_ipc_cmd, the notification thread receives what the peer       *)
(* sends, and hal_ipc_cleanup may run.                                     *)
(***************************************************************************)
NextBoth ==
    \/ CleanupClose
    \/ CleanupMark
    \/ CleanupShutdown
    \/ \E crash \in BOOLEAN : CleanupJoin(crash)
    \/ \E a \in CallArgs : calls[1] < MaxCalls /\ CmdEnter(1, a)
    \/ CmdLock(1)
    \/ \E ret \in SendRets(args[1]) : CmdSend(1, ret)
    \/ \E how \in {"record", "eof", "error"} : CmdRecv(1, how)
    \/ CmdExit(1)
    \/ CmdValidate(1)
    \/ \E how \in {"record", "eof", "error"} : NotifRecv(how)
    \/ NotifCheck
    \/ NotifDispatch
    \/ NotifClose
    \/ \E r \in Answers(Responses(Head(reqQ).op)) : PeerRespond(r)
    \/ PeerCloseCmd
    \/ \E n \in Notifs : nsent < MaxNotif /\ PeerNotify(n)
    \/ PeerCloseNotif

SpecBoth == InitUp /\ [][NextBoth]_vars

(***************************************************************************)
(* Callers served by a peer that answers: every thread sends requests of   *)
(* its own opcode, and the peer answers each request, in the order the     *)
(* requests reached it, with a well-formed response to that request: the   *)
(* empty success response of the request's opcode, or an error response    *)
(* whose status byte is the request's opcode.  Every receive returns the   *)
(* record the peer sent; a send may fail or fall short.                    *)
(***************************************************************************)
PairArgs(c) == Args(1, 4 + c, <<c>>, FALSE, <<>>, FALSE)

PairResponses(q) ==
    { Rsp(HdrSize, q.sid, q.op, 0, <<>>, NoFd),
      Rsp(HdrSize, q.sid, OpError, ErrSize, <<q.op>>, NoFd) }

NextPair ==
    \/ \E c \in Callers : calls[c] < MaxCalls /\ CmdEnter(c, PairArgs(c))
    \/ \E c \in Callers : CmdLock(c)
    \/ \E c \in Callers : \E ret \in SendRets(args[c]) : CmdSend(c, ret)
    \/ \E c \in Callers : CmdRecv(c, "record")
    \/ \E c \in Callers : CmdExit(c)
    \/ \E c \in Callers : CmdValidate(c)
    \/ \E r \in Answers(PairResponses(Head(reqQ))) : PeerRespond(r)

SpecPair == InitUp /\ [][NextPair]_vars

\* The same with the progress the premise gives: the peer answers every
\* request, a thread that can run its next statement runs it, a lock that
\* stays free is taken, and a receive returns the record the socket holds.
SpecPairLive ==
    /\ SpecPair
    /\ WF_vars(\E r \in Answers(PairResponses(Head(reqQ))) : PeerRespond(r))
    /\ \A c \in Callers :
          /\ WF_vars(CmdLock(c))
          /\ WF_vars(\E ret \in SendRets(args[c]) : CmdSend(c, ret))
          /\ WF_vars(CmdRecv(c, "record"))
          /\ WF_vars(CmdExit(c))
          /\ WF_vars(CmdValidate(c))

(***************************************************************************)
(* One thread calling hal_ipc_cmd at any time in the life of the           *)
(* transport: before hal_ipc_init, while it runs, on the established       *)
(* connection, during hal_ipc_cleanup and after it.  The peer sends no     *)
(* notification.                                                           *)
(***************************************************************************)
NextGate ==
    \/ \E ok \in BOOLEAN : inits < MaxInit /\ InitSocket(ok)
    \/ \E ok \in BOOLEAN : InitBind(ok)
    \/ \E ok \in BOOLEAN : InitListen(ok)
    \/ \E o \in AcceptOutcomes : InitAcceptCmd(o)
    \/ \E o \in AcceptOutcomes : InitAcceptNotif(o)
    \/ \E err \in {0, 11} : InitSpawn(err)
    \/ CleanupClose
    \/ CleanupMark
    \/ CleanupShutdown
    \/ \E crash \in BOOLEAN : CleanupJoin(crash)
    \/ \E a \in CallArgs : calls[1] < MaxCalls /\ CmdEnter(1, a)
    \/ CmdLock(1)
    \/ \E ret \in SendRets(args[1]) : CmdSend(1, ret)
    \/ \E how \in {"record", "eof", "error"} : CmdRecv(1, how)
    \/ CmdExit(1)
    \/ CmdValidate(1)
    \/ \E how \in {"eof", "error"} : NotifRecv(how)
    \/ NotifCheck
    \/ NotifClose
    \/ \E r \in Answers(Responses(Head(reqQ).op)) : PeerRespond(r)
    \/ PeerCloseCmd
    \/ PeerCloseNotif

SpecGate == Init /\ [][NextGate]_vars

(***************************************************************************)
(* Properties.                                                             *)
(***************************************************************************)
NotifExits == {"notif_recv", "notif_closed", "notif_small", "notif_opcode",
               "notif_malformed", "notif_crash"}

CmdExits == {"cmd_invalid_sk", "cmd_send", "cmd_recv", "cmd_small",
             "cmd_malformed", "cmd_opcode", "cmd_crash"}

\* A caller is in flight from the return of its sendmsg to the return of its
\* recvmsg.
InFlight == {c \in Callers : pc[c] = "recv"}

\* C1: at most one caller is between its sendmsg and the return of its
\* recvmsg, that caller holds cmd_sk_mutex, and no request goes on the wire
\* while another caller still waits for its response.
C1_OneCallInFlight ==
    /\ Cardinality(InFlight) <= 1
    /\ \A c \in Callers : pc[c] \in {"send", "recv"} => mutex = c

C1_SecondCallerWaits ==
    /\ Running
    /\ \E c, d \in Callers : c # d /\ pc[c] = "recv" /\ pc[d] = "lock"

\* C2: a teardown begun while the notification thread is blocked in its read
\* never ends on an exit path of the thread, however the peer's closing of
\* its notification end is interleaved with it.
C2_TeardownIsBenign == cleanQuiet => exitAt \notin NotifExits

\* C3: the thread leaves its loop for the close (and Stopped) only on a
\* zero-length read seen with cmd_sk = -1, goes on to dispatch only on a
\* positive read, and otherwise a step of the thread ends the process.
C3_OnlyBenignStop ==
    [][npc = "check" =>
          /\ npc' # "check" => npc' \in {"close", "dispatch"}
          /\ npc' = "close" => (nret = 0 /\ cmd_sk = -1)
          /\ npc' = "dispatch" => nret > 0
          /\ (exitAt' \in NotifExits /\ nret = 0) =>
                 (exitAt' = "notif_closed" /\ cmd_sk # -1)
          /\ (exitAt' \in NotifExits /\ nret < 0) => exitAt' = "notif_recv"]_vars

C3_Stopped == npc = "stopped" /\ nret = 0 /\ cmd_sk = -1 /\ Running

\* What line 99, 105 and 111 demand of a notification of ret bytes.
WellFramed(ret, hdr) ==
    /\ ret >= HdrSize
    /\ hdr.op >= MinEvent
    /\ ret = HdrSize + hdr.len

\* C4: notification_dispatch is called only for a notification with a full
\* header, an event opcode and a size of header plus declared length; for any
\* other non-empty read a step of the thread ends the process.
C4_DispatchOnlyWellFramed ==
    /\ [](\A i \in DOMAIN dispatched :
             WellFramed(dispatched[i].ret, RecvHdr(dispatched[i].msg)))
    /\ [][(npc = "check" /\ nret > 0 /\ ~WellFramed(nret, RecvHdr(nmsg))) =>
             /\ npc' = "check"
             /\ dispatched' = dispatched
             /\ exitAt' \in {"none", "notif_small", "notif_opcode",
                             "notif_malformed"} \cup CmdExits \cup {"join_crash"}]_vars

\* Header length 10 followed by 4 payload bytes: the process is terminated.
C4_ShortBodyIsFatal ==
    /\ exitAt = "notif_malformed"
    /\ nmsg.len = 10
    /\ nmsg.body = 4
    /\ dispatched = <<>>

\* What lines 328-342 demand of a response to a request with opcode op.
ValidResponse(g, op) ==
    /\ g.ret >= HdrSize
    /\ g.ret = HdrSize + g.hdr.len
    /\ g.hdr.op \in {op, OpError}

\* C5: hal_ipc_cmd returns only from its validation and only with a response
\* that has a full header, a size of header plus declared length and the
\* request's or the error opcode; after a failed send or receive the caller
\* never returns.
C5_ReturnsOnlyValidResponse ==
    /\ [](\A c \in Callers : pc[c] = "done" => ValidResponse(got[c], args[c].op))
    /\ [][\A c \in Callers :
             /\ (pc[c] # "done" /\ pc'[c] = "done") => pc[c] = "validate"
             /\ pc[c] \in {"exit_send", "exit_recv"} =>
                    (pc'[c] = pc[c] /\ retv'[c] = retv[c])]_vars

C5_Returned ==
    \E c \in Callers : pc[c] = "done" /\ retv[c] = StatusSuccess /\ got[c].hdr.len > 0

\* C6: with a response whose opcode is neither the request's nor the error
\* opcode the caller never returns and no value is reported: its next step
\* terminates the process.
C6_ForeignOpcodeIsFatal ==
    [][\A c \in Callers :
          (/\ pc[c] = "validate"
           /\ got[c].ret >= HdrSize
           /\ got[c].hdr.op \notin {args[c].op, OpError}) =>
              /\ pc'[c] = "validate"
              /\ retv'[c] = retv[c]
              /\ rlen'[c] = rlen[c]
              /\ exitAt' \in {exitAt, "cmd_malformed", "cmd_opcode"}]_vars

C6_ForeignOpcodeExit ==
    /\ exitAt = "cmd_opcode"
    /\ \E c \in Callers : pc[c] = "validate" /\ got[c].hdr.op = OtherOp(args[c].op)

\* C7: with a response shorter than a header, or whose size is not header
\* plus declared length, the caller never returns, whatever the body holds:
\* its next step terminates the process.
C7_BadSizeIsFatal ==
    [][\A c \in Callers :
          (/\ pc[c] = "validate"
           /\ \/ got[c].ret < HdrSize
              \/ got[c].ret # HdrSize + got[c].hdr.len) =>
              /\ pc'[c] = "validate"
              /\ retv'[c] = retv[c]
              /\ rlen'[c] = rlen[c]
              /\ exitAt' \in {exitAt, "cmd_small", "cmd_malformed"}]_vars

C7_OneByteShortExit ==
    /\ exitAt = "cmd_malformed"
    /\ \E c \in Callers :
          /\ pc[c] = "validate"
          /\ got[c].ret = HdrSize + got[c].hdr.len - 1
          /\ got[c].hdr.op = args[c].op

\* A call that returned the status of an error response into a caller buffer.
ErrorReturn(c) ==
    /\ pc[c] = "done"
    /\ got[c].hdr.op = OpError

\* C8 as claimed: after an error response the caller's buffer is unchanged.
C8_BufferUnchanged ==
    \A c \in Callers : (ErrorReturn(c) /\ args[c].hasRsp) => rbuf[c] = args[c].buf

\* C8 as amended: the error body is received into the caller's buffer; its
\* first declared-length bytes hold the error body and only the bytes beyond
\* them are unchanged.
C8_BufferHoldsErrorBody ==
    \A c \in Callers : (ErrorReturn(c) /\ args[c].hasRsp) =>
        /\ Len(rbuf[c]) = args[c].cap
        /\ \A i \in 1 .. args[c].cap :
              rbuf[c][i] = IF i <= got[c].hdr.len
                           THEN got[c].rec.body[i] ELSE args[c].buf[i]

C8_ErrorBodyInBuffer ==
    \E c \in Callers :
        /\ ErrorReturn(c)
        /\ args[c].hasRsp
        /\ got[c].hdr.len = 1
        /\ args[c].cap = 2
        /\ rbuf[c] # args[c].buf

\* C9: the value returned for an error response is the status code in that
\* response's error body.
C9_StatusFromErrorBody ==
    \A c \in Callers : ErrorReturn(c) =>
        /\ Len(got[c].rec.body) >= ErrSize
        /\ retv[c] = got[c].rec.body[1]

\* A response the peer framed well for opcode op, that fits cap bytes.
WellFormedSuccess(r, op, cap) ==
    /\ r.hb = HdrSize
    /\ r.op = op
    /\ r.op # OpError
    /\ Len(r.body) = r.len
    /\ r.len <= cap

\* C10: a call answered by a well-formed response of the request's opcode
\* with n body bytes returns success with exactly those n bytes in the buffer
\* and reports the length n.
C10_RoundTrip ==
    \A c \in Callers :
        (/\ pc[c] \in {"validate", "done"}
         /\ WellFormedSuccess(got[c].rec, args[c].op, Len(rbuf[c]))) =>
            /\ pc[c] = "validate" => exitAt \notin CmdExits
            /\ pc[c] = "done" =>
                  /\ retv[c] = StatusSuccess
                  /\ rlen[c] = got[c].rec.len
                  /\ SubSeq(rbuf[c], 1, got[c].rec.len) = got[c].rec.body

\* A call that asked for a descriptor and was answered by a well-formed
\* response of the request's opcode.
FdCall(c) ==
    /\ args[c].wantFd
    /\ WellFormedSuccess(got[c].rec, args[c].op, Len(rbuf[c]))

\* C11: a call that asked for a descriptor and is answered by a well-formed
\* success response without ancillary data returns success with the
\* descriptor output -1; the missing descriptor never ends the process.
C11_NoDescriptorIsNone ==
    \A c \in Callers :
        (FdCall(c) /\ got[c].rec.fd = NoFd) =>
            /\ pc[c] = "validate" => exitAt # "cmd_crash"
            /\ pc[c] = "done" => (retv[c] = StatusSuccess /\ fdOut[c] = NoFd)

\* C12: a call that asked for a descriptor and is answered by a well-formed
\* success response with descriptor D attached returns success with D in the
\* descriptor output.
C12_DescriptorDelivered ==
    \A c \in Callers :
        (FdCall(c) /\ got[c].rec.fd # NoFd /\ pc[c] = "done") =>
            /\ retv[c] = StatusSuccess
            /\ fdOut[c] = got[c].rec.fd

\* C13: a sendmsg that fails, or that sends fewer bytes than header plus
\* payload, is followed by the termination path and never by the wait for a
\* response: a caller goes on to its receive only after the whole request
\* went out.
C13_ShortOrFailedSendIsFatal ==
    [][\A c \in Callers :
          (pc[c] = "send" /\ pc'[c] # "send") =>
              \/ /\ pc'[c] = "exit_send"
                 /\ reqQ' = reqQ
              \/ /\ pc'[c] = "recv"
                 /\ reqQ' = Append(reqQ, Req(args[c].sid, args[c].op,
                                             args[c].payload))]_vars

\* C14: a response with the error opcode is returned, not treated as a
\* transport failure.  The step that returns its status leaves the process
\* running, the mutex as it was and not with the caller, and cmd_sk, notif_sk
\* and the open descriptors unchanged; the caller's next call is accepted and
\* validated like any other.
C14_ErrorResponseIsNotFatal ==
    /\ [][\A c \in Callers :
             (/\ pc[c] = "validate"
              /\ ValidResponse(got[c], args[c].op)
              /\ CmdIsError(got[c].hdr)
              /\ (pc'[c] # pc[c] \/ exitAt' # exitAt)) =>
                 /\ pc'[c] = "done"
                 /\ exitAt' = "none"
                 /\ retv'[c] \in Byte
                 /\ mutex' = mutex /\ mutex # c
                 /\ cmd_sk' = cmd_sk /\ notif_sk' = notif_sk /\ open' = open]_vars
    /\ [][\A c \in Callers :
             (ErrorReturn(c) /\ calls'[c] # calls[c]) =>
                 (cmd_sk >= 0 => (pc'[c] = "lock" /\ exitAt' = "none"))]_vars
    /\ [](\A c \in Callers :
             (prevErr[c] /\ pc[c] = "done") =>
                 /\ ValidResponse(got[c], args[c].op)
                 /\ ~CmdIsError(got[c].hdr) =>
                        (retv[c] = StatusSuccess /\ rlen[c] = got[c].hdr.len))

C14_CallAfterError ==
    \E c \in Callers :
        /\ prevErr[c]
        /\ pc[c] = "done"
        /\ got[c].hdr.op = args[c].op
        /\ retv[c] = StatusSuccess
        /\ Running
        /\ mutex = 0
        /\ open = {FdCmd, FdNotif}

\* Positions of the main thread inside hal_ipc_init, after socket().
InitPcs == {"i_bind", "i_listen", "i_accept1", "i_accept2", "i_spawn"}

\* Positions of a notification thread that has not finished.
ThreadLive == {"recv", "check", "dispatch", "close"}

\* C15: on every return of hal_ipc_init on which one of its steps failed
\* (socket, bind, listen, poll, accept, or the start of the thread) the result
\* is failure, the listening socket and both accepted sockets are closed,
\* cmd_sk and notif_sk are -1 and no notification thread runs.
C15_FailureReleasesAll ==
    [][(/\ mpc \in InitPcs \cup {"down"}
        /\ mpc' \in {"up", "down"}
        /\ (inits' # inits \/ mpc \in InitPcs)
        /\ \/ mpc' = "down"
           \/ mpc = "i_spawn" /\ npc' # "recv") =>
           /\ mpc' = "down"
           /\ initRet' = FALSE
           /\ open' = {}
           /\ cmd_sk' = -1
           /\ notif_sk' = -1
           /\ npc' \notin ThreadLive]_vars

\* C16: when pthread_create reports an error, hal_ipc_init returns failure
\* with both accepted sockets closed and cmd_sk, notif_sk and notif_th reset.
C16_SpawnFailureIsFailure ==
    [][(mpc = "i_spawn" /\ mpc' # "i_spawn" /\ npc' # "recv") =>
           /\ mpc' = "down"
           /\ initRet' = FALSE
           /\ FdCmd \notin open' /\ FdNotif \notin open'
           /\ cmd_sk' = -1 /\ notif_sk' = -1 /\ notif_th' = 0]_vars

\* C17: hal_ipc_init returns true only in a state where cmd_sk is the first
\* accepted connection, notif_sk the second, both are open, and a
\* notification thread has been started on notif_sk.
C17_SuccessMeansEstablished ==
    [][(mpc \in InitPcs /\ mpc' = "up") =>
           /\ initRet' = TRUE
           /\ accLog' = <<"poll_1", "accept_ok", "poll_1", "accept_ok">>
           /\ cmd_sk' = FdCmd /\ notif_sk' = FdNotif
           /\ {FdCmd, FdNotif} \subseteq open'
           /\ notif_th' # 0
           /\ npc' = "recv"]_vars

\* C18: in accLog every accept directly follows a poll that reported a ready
\* descriptor, every poll is the first call or directly follows a successful
\* accept, and a poll that reported nothing ready (like any failed call) is
\* the last call: hal_ipc_init has then returned failure.
C18_OnePollPerAccept ==
    \A i \in DOMAIN accLog :
        /\ accLog[i] \in {"accept_ok", "accept_err"} =>
               (i > 1 /\ accLog[i - 1] = "poll_1")
        /\ (accLog[i] \in {"poll_0", "poll_1", "poll_err"} /\ i > 1) =>
               accLog[i - 1] = "accept_ok"
        /\ accLog[i] \in {"poll_0", "poll_err", "accept_err"} =>
               (i = Len(accLog) /\ mpc = "down" /\ initRet = FALSE)

C18_SecondPollTimedOut ==
    /\ accLog = <<"poll_1", "accept_ok", "poll_0">>
    /\ mpc = "down"
    /\ initRet = FALSE
    /\ cmd_sk = -1
    /\ open = {}

\* C19: hal_ipc_cleanup closes the command socket first, issues the
\* read-direction shutdown only after that, returns from the join only when
\* the thread has finished, and resets the thread handle (the connection is
\* torn down) only then; the notification socket is closed by the thread's
\* own last step and by nothing else.
C19_TeardownOrder ==
    [][/\ (mpc = "up" /\ mpc' # mpc) =>
             /\ mpc' = "c_mark"
             /\ cmd_sk \notin open'
             /\ shutRd' = shutRd /\ notif_th' = notif_th
       /\ (mpc = "c_mark" /\ mpc' # mpc) =>
             /\ mpc' = "c_shutdown"
             /\ shutRd' = shutRd /\ notif_th' = notif_th /\ open' = open
       /\ (mpc = "c_shutdown" /\ mpc' # mpc) =>
             /\ mpc' = "c_join"
             /\ FdCmd \notin open
             /\ notif_th' = notif_th /\ open' = open
       /\ (mpc = "c_join" /\ mpc' # mpc) =>
             /\ mpc' = "down"
             /\ notif_th # 0 => npc = "stopped"
             /\ notif_th' = 0 /\ open' = open
       /\ (~shutRd /\ shutRd') => (mpc = "c_shutdown" /\ FdCmd \notin open)
       /\ (notif_th # 0 /\ notif_th' = 0) => (mpc = "c_join" /\ npc = "stopped")
       /\ (FdNotif \in open /\ FdNotif \notin open') =>
             (npc = "close" /\ npc' = "stopped")]_vars

C19_TornDown ==
    /\ Running
    /\ mpc = "down"
    /\ inits = 1
    /\ shutRd
    /\ npc = "stopped"
    /\ notif_th = 0
    /\ cmd_sk = -1
    /\ open = {}

\* C20: a caller waiting for its response when hal_ipc_cleanup has closed
\* the command socket does not wait forever: its receive returns (and the
\* call takes a termination path), or the process has been terminated.
C20_BlockedCallerUnblocks ==
    \A c \in Callers :
        (pc[c] = "recv" /\ FdCmd \notin open) ~> (pc[c] # "recv" \/ ~Running)

\* Notifications the thread has read and not yet handed on or rejected.
InCheck == IF npc = "check" /\ nret > 0 THEN 1 ELSE 0

\* C21: the notifications handed to notification_dispatch are, in order, the
\* first notifications that arrived; every notification that arrived is
\* dispatched, under check or still queued; a dispatch starts only from the
\* check of a record just read, one record per start; and while a dispatch
\* runs nothing is read, nothing else is dispatched, and the thread's next
\* step is the return to its receive.
C21_DispatchInArrivalOrder ==
    /\ [](/\ Len(dispatched) + InCheck + Len(notifQ) = Len(arrived)
          /\ \A i \in DOMAIN dispatched : dispatched[i].msg = arrived[i])
    /\ [][/\ dispatched' # dispatched =>
                 /\ npc = "check" /\ npc' = "dispatch"
                 /\ dispatched' = Append(dispatched, dispatched'[Len(dispatched')])
                 /\ dispatched'[Len(dispatched')].msg = nmsg
          /\ npc = "dispatch" =>
                 /\ dispatched' = dispatched
                 /\ nmsg' = nmsg
                 /\ npc' \in {"dispatch", "recv"}
                 /\ Len(notifQ') >= Len(notifQ)
                 /\ SubSeq(notifQ', 1, Len(notifQ)) = notifQ]_vars

\* Two different notifications were dispatched, the second one after the
\* dispatch of the first had returned.
C21_TwoDispatched ==
    /\ Len(dispatched) = 2
    /\ dispatched[1].msg # dispatched[2].msg
    /\ npc = "recv"

\* C22: every call of notification_dispatch is handed the descriptor that
\* came with the notification, none (-1) when none came, and the search for
\* the descriptor never ends the thread.
C22_DispatchGetsDescriptor ==
    /\ exitAt # "notif_crash"
    /\ \A i \in DOMAIN dispatched : dispatched[i].fd = dispatched[i].msg.fd

\* C23: while the thread receives, checks or dispatches, notif_sk names the
\* open notification socket; the socket is closed only by the thread's step
\* to "stopped"; that step closes a socket that is still open and sets
\* notif_sk to -1; and once the thread has stopped the socket is closed and
\* notif_sk is -1 for as long as the thread's handle is kept.
C23_ThreadClosesOnceAtStop ==
    /\ [](/\ npc \in ThreadLive => (notif_sk = FdNotif /\ FdNotif \in open)
          /\ (npc = "stopped" /\ notif_th # 0) =>
                 (notif_sk = -1 /\ FdNotif \notin open))
    /\ [][/\ (FdNotif \in open /\ FdNotif \notin open') =>
                 (npc = "close" /\ npc' = "stopped")
          /\ (npc = "close" /\ npc' = "stopped") =>
                 /\ notif_sk \in open
                 /\ open' = open \ {notif_sk}
                 /\ notif_sk' = -1]_vars

\* The thread has stopped and closed its socket, and hal_ipc_cleanup has not
\* yet joined it.
C23_StoppedAndClosed ==
    /\ npc = "stopped"
    /\ notif_th # 0
    /\ notif_sk = -1
    /\ FdNotif \notin open

\* C24: the two sockets of the connection are established at most once in
\* the life of the process, and once they are established cmd_sk and notif_sk
\* change only in hal_ipc_cleanup and in the thread's stop that it causes.
C24_EstablishedAtMostOnce ==
    /\ [](conns <= 1)
    /\ [][(conns >= 1 /\ <<cmd_sk, notif_sk>>' # <<cmd_sk, notif_sk>>) =>
              (mpc = "c_mark" \/ npc = "close")]_vars

\* Notification threads of this process that have not finished.
NThreads == IF npc \in ThreadLive THEN 1 ELSE 0

\* C25: from the return of a hal_ipc_init that reported success until
\* hal_ipc_cleanup is called, exactly one notification thread runs.
C25_ExactlyOneThread == (Running /\ mpc = "up") => NThreads = 1

\* Positions of the main thread inside hal_ipc_cleanup, and before it.
CleanupPcs == {"up", "c_mark", "c_shutdown", "c_join"}

\* C26: no step of hal_ipc_cmd changes notif_sk, what is queued on the
\* notification socket, its shutdown state or whether it is open; a step of
\* hal_ipc_cleanup changes none of these but the shutdown state, and that
\* only in its shutdown statement; and no step taken while the thread is in
\* its receive closes the socket.
C26_CallersLeaveNotifSocket ==
    [][/\ (pc' # pc \/ calls' # calls) =>
             /\ UNCHANGED <<notif_sk, notifQ, shutRd, peerNotif>>
             /\ (FdNotif \in open') = (FdNotif \in open)
       /\ (mpc \in CleanupPcs /\ mpc' # mpc) =>
             /\ UNCHANGED <<notif_sk, notifQ, peerNotif>>
             /\ (FdNotif \in open') = (FdNotif \in open)
             /\ shutRd' # shutRd => mpc = "c_shutdown"
       /\ npc = "recv" => (FdNotif \in open /\ FdNotif \in open')]_vars

\* hal_ipc_cleanup has shut the notification socket down while the thread is
\* in its receive and a caller is inside hal_ipc_cmd: the socket is still open.
C26_ShutDownStillOpen ==
    /\ mpc = "c_join"
    /\ shutRd
    /\ npc = "recv"
    /\ FdNotif \in open
    /\ \E c \in Callers : pc[c] = "recv"

\* C27: a caller waiting in its receive holds cmd_sk_mutex; as long as no
\* response is queued and the peer has not closed, its only step is the
\* failure of the receive, which ends the process and does not return to the
\* caller; a call returns only after it has read a record; and a caller
\* waiting for the mutex stays there for as long as another holds it.
C27_StalledPeerBlocks ==
    /\ [](\A c \in Callers : pc[c] = "recv" => mutex = c)
    /\ [][\A c \in Callers :
            /\ (pc[c] = "recv" /\ rspQ = <<>> /\ peerCmd = "open") =>
                   pc'[c] \in {"recv", "exit_recv"}
            /\ (pc[c] = "exit_recv" /\ pc'[c] # pc[c]) => exitAt' = "cmd_recv"
            /\ (pc[c] # "done" /\ pc'[c] = "done") =>
                   (pc[c] = "validate" /\ got[c].ret > 0)
            /\ (pc[c] = "lock" /\ mutex # 0) => pc'[c] = "lock"]_vars

\* A request is with the peer, which has neither answered nor closed: one
\* caller waits in its receive with the mutex, the other waits for the mutex.
C27_OneWaitsOneQueued ==
    \E c, d \in Callers :
        /\ c # d
        /\ pc[c] = "recv" /\ mutex = c
        /\ pc[d] = "lock"
        /\ reqQ # <<>> /\ rspQ = <<>> /\ peerCmd = "open"

C29_ShutdownReadIsBenign ==
    /\ []((shutRd /\ npc \in ThreadLive) => cmd_sk = -1)
    /\ [][/\ (npc = "recv" /\ npc' = "check" /\ nret' = 0 /\ shutRd) =>
                 (cmd_sk = -1 /\ cmd_sk' = -1)
          /\ (npc = "check" /\ nret = 0 /\ shutRd) =>
                 (exitAt' \notin NotifExits /\ npc' \in {"check", "close"})]_vars

\* The peer's end is open and nothing was queued: the read of 0 came from
\* the teardown's shutdown, and the thread took the benign branch.
C29_ShutdownSeen ==
    /\ npc = "close"
    /\ nret = 0
    /\ shutRd
    /\ peerNotif = "open"
    /\ cmd_sk = -1

\* The record a caller read is one of the responses to its own request.
OwnResponse(c) ==
    got[c].rec \in PairResponses(Req(args[c].sid, args[c].op, args[c].payload))

C31_InvalidSocketIsFatal ==
    /\ [](exitAt = "cmd_invalid_sk" => cmd_sk < 0)
    /\ [][\A c \in Callers :
            (calls'[c] # calls[c] /\ cmd_sk < 0) =>
                /\ exitAt' = "cmd_invalid_sk"
                /\ UNCHANGED <<mutex, pc, open>>
                /\ UNCHANGED <<cmdConn, notifConn>>]_vars

\* hal_ipc_cmd was called after hal_ipc_cleanup had returned on a transport
\* that hal_ipc_init had set up.
C31_CalledAfterCleanup ==
    /\ exitAt = "cmd_invalid_sk"
    /\ mpc = "down"
    /\ conns = 1
    /\ pc[1] = "idle"
    /\ mutex = 0

\* C32: a call that returns success reports the declared length of its
\* response and that length is at most the capacity the call received into
\* (the caller's *rsp_len on entry, or the size of the error structure when
\* no buffer was passed); a response that declares more than the capacity is
\* never returned: the step that validates it ends the process.
C32_LengthWithinCapacity ==
    /\ [](\A c \in Callers :
             (pc[c] = "done" /\ ~CmdIsError(got[c].hdr)) =>
                 /\ retv[c] = StatusSuccess
                 /\ rlen[c] = got[c].hdr.len
                 /\ rlen[c] <= CmdBufCap(args[c]))
    /\ [][\A c \in Callers :
            (/\ pc[c] = "validate"
             /\ got[c].hdr.len > CmdBufCap(args[c])
             /\ <<pc[c], exitAt>>' # <<pc[c], exitAt>>) =>
                /\ pc'[c] = "validate"
                /\ exitAt' \in {"cmd_small", "cmd_malformed"}
                /\ rlen'[c] = rlen[c]]_vars

\* A response of the request's opcode whose body is as long as it declares
\* and longer than the caller's buffer ended the process.
C32_OversizeExit ==
    /\ exitAt = "cmd_malformed"
    /\ args[1].hasRsp
    /\ got[1].rec.op = args[1].op
    /\ got[1].rec.hb = HdrSize
    /\ Len(got[1].rec.body) = got[1].rec.len
    /\ got[1].rec.len > args[1].cap

\* C33: no call returns a status for an error response whose body is shorter
\* than the error structure, and the status a call returns for an error
\* response is the first byte received in that response.
C33_ShortErrorNotReturned ==
    \A c \in Callers :
        (pc[c] = "done" /\ CmdIsError(got[c].hdr)) =>
            /\ got[c].hdr.len >= ErrSize
            /\ got[c].ret >= HdrSize + ErrSize
            /\ retv[c] = got[c].rec.body[1]

\* C34: hal_ipc_cleanup closes a command socket that is open; and when it
\* returns, cmd_sk and notif_sk are -1, the thread handle is 0, no
\* notification thread is left and neither socket of the connection is open.
C34_CleanupReleasesAll ==
    [][/\ (mpc = "up" /\ mpc' = "c_mark") =>
             (cmd_sk \in open /\ open' = open \ {cmd_sk})
       /\ (mpc = "c_join" /\ mpc' = "down") =>
             /\ cmd_sk' = -1
             /\ notif_sk' = -1
             /\ notif_th' = 0
             /\ npc' \notin ThreadLive
             /\ FdCmd \notin open'
             /\ FdNotif \notin open']_vars

\* C35: a well-formed notification of a service other than the Bluetooth
\* core service never ends the process and is never delivered: the thread's
\* step after reading it is the call of notification_dispatch, and its step
\* after that is the return to the receive with nothing delivered.
C35_UnhandledServiceDropped ==
    [][/\ (/\ npc = "check"
           /\ WellFramed(nret, RecvHdr(nmsg))
           /\ nmsg.sid # SvcBluetooth
           /\ <<npc, exitAt>>' # <<npc, exitAt>>) =>
              (npc' = "dispatch" /\ exitAt' = exitAt)
       /\ (/\ npc = "dispatch"
           /\ nmsg.sid # SvcBluetooth
           /\ <<npc, exitAt>>' # <<npc, exitAt>>) =>
              (npc' = "recv" /\ exitAt' = exitAt /\ delivered' = delivered)]_vars

\* C36: when a call has returned the status of an error response, the
\* caller's *rsp_len holds the capacity it held on entry and the caller's
\* *fd holds what it held on entry.
C36_ErrorLeavesOutputs ==
    \A c \in Callers :
        ErrorReturn(c) =>
            /\ rlen[c] = CmdBufCap(args[c])
            /\ fdOut[c] = FdUnset

\* An error response that came with a descriptor and with a body shorter
\* than the caller's buffer was returned to a caller that passed rsp,
\* rsp_len and fd.
C36_ErrorWithOutputs ==
    /\ ErrorReturn(1)
    /\ args[1].hasRsp /\ args[1].wantFd
    /\ got[1].rec.fd = FdPassed
    /\ got[1].hdr.len = 1 /\ args[1].cap = 2
    /\ rlen[1] = 2
    /\ fdOut[1] = FdUnset

\* Positions of hal_ipc_init at which the listening socket is in use.
ListenPcs == {"i_bind", "i_listen", "i_accept1", "i_accept2"}

\* C37: the listening socket is open from its creation up to the statement
\* of hal_ipc_init that closes it, so that each close acts on an open
\* descriptor; it is closed only by a step of hal_ipc_init that returns a
\* failure or goes on to start the thread; and it is not open at the start
\* of the thread nor at any time outside hal_ipc_init.
C37_ListenSocketClosedOnce ==
    /\ [](/\ mpc \in ListenPcs => FdListen \in open
          /\ mpc \notin ListenPcs => FdListen \notin open)
    /\ [][(FdListen \in open /\ FdListen \notin open') =>
              /\ mpc \in ListenPcs
              /\ \/ mpc' = "down" /\ initRet' = FALSE
                 \/ mpc = "i_accept2" /\ mpc' = "i_spawn"]_vars

\* hal_ipc_init returned a failure after its first accept_connection timed
\* out: the listening socket it had created is closed.
C37_ClosedAfterTimeout ==
    /\ mpc = "down"
    /\ accLog = <<"poll_0">>
    /\ initRet = FALSE
    /\ FdListen \notin open
    /\ open = {}

====
